---- MODULE Spec2Model ----
(***************************************************************************)
(* A model of the kern-convertor scripts:                                  *)
(*   kern-convertor.py  convert_kerning_fea_to_plist and its helpers       *)
(*   kern-groups.py     extract_and_write_kerning_groups and its helpers   *)
(* The feature-file parser (fontTools.feaLib) is external: what it returns *)
(* (the statement tree, or an exception) is the input of the model.  The   *)
(* optional font file only supplies the parser's glyph set and is part of  *)
(* that input.                                                             *)
(* Glyph and class names are opaque strings.  Names on which the code does *)
(* character work (lookup names, group names) are sequences of characters. *)
(***************************************************************************)
EXTENDS Integers, Sequences, FiniteSets, TLC

VARIABLES
    prog,               \* which script runs: "kerning", "groups" or "classify"
    pc,                 \* position in the running function
    fea_exists,         \* os.path.exists(fea_file_path)
    feature_file,       \* parser.parse().statements (<<>> before parsing)
    parsed,             \* TRUE once parser.parse() has returned
    glyph_classes,      \* kern-convertor.py: {'@ClassName': [glyphs]}
    kerning_data,       \* kern-convertor.py: {g1: {g2: value}}
    i,                  \* index of the top-level statement being visited
    j,                  \* index in statements_to_process
    statements_to_process,
    output,             \* the output plist file
    log,                \* the error and warning messages, in order
    pairs_logged,       \* the "Added kerning pair" debug lines, in order
    extracted_groups_data, \* kern-groups.py: {group name: [glyphs]}
    glyphClassDefs,     \* kern-groups.py: parser.glyphClassDefs after parse()
    regex_matches,      \* parse_groups_with_regex: what re.findall returned
    class_name,         \* determine_group_type: its argument
    group_type          \* determine_group_type: its result

vars == <<prog, pc, fea_exists, feature_file, parsed, glyph_classes,
          kerning_data, i, j, statements_to_process, output, log,
          pairs_logged, extracted_groups_data, glyphClassDefs, regex_matches,
          class_name, group_type>>

(***************************************************************************)
(* Bounds                                                                  *)
(***************************************************************************)
\* the longest feature file: its number of top-level statements
MaxTop == 3
\* the longest class name given to determine_group_type, in chunks
MaxChunks == 3

(***************************************************************************)
(* Strings as sequences of characters                                      *)
(***************************************************************************)
UpperLetters ==
    <<"A","B","C","D","E","F","G","H","I","J","K","L","M",
      "N","O","P","Q","R","S","T","U","V","W","X","Y","Z">>

LowerLetters ==
    <<"a","b","c","d","e","f","g","h","i","j","k","l","m",
      "n","o","p","q","r","s","t","u","v","w","x","y","z">>

IndexIn(c, s) ==
    IF \E k \in 1..Len(s) : s[k] = c
    THEN CHOOSE k \in 1..Len(s) : s[k] = c
    ELSE 0

\* str.lower()
lower(s) ==
    [k \in 1..Len(s) |->
        LET n == IndexIn(s[k], UpperLetters)
        IN  IF n = 0 THEN s[k] ELSE LowerLetters[n]]

\* str.upper()
upper(s) ==
    [k \in 1..Len(s) |->
        LET n == IndexIn(s[k], LowerLetters)
        IN  IF n = 0 THEN s[k] ELSE UpperLetters[n]]

\* s.startswith(p)
startswith(s, p) ==
    /\ Len(s) >= Len(p)
    /\ SubSeq(s, 1, Len(p)) = p

\* p in s
contains(p, s) ==
    \E k \in 0..(Len(s) - Len(p)) : SubSeq(s, k + 1, k + Len(p)) = p

(***************************************************************************)
(* Dictionaries                                                            *)
(***************************************************************************)
EmptyDict == [x \in {} |-> 0]

\* d[k] = v
DictPut(d, k, v) ==
    [x \in (DOMAIN d) \cup {k} |-> IF x = k THEN v ELSE d[x]]

\* d.get(k, default)
DictGet(d, k, default) ==
    IF k \in DOMAIN d THEN d[k] ELSE default

(***************************************************************************)
(* kern-groups.py: determine_group_type                                    *)
(***************************************************************************)
kern1 == <<"p","u","b","l","i","c",".","k","e","r","n","1",".">>
kern2 == <<"p","u","b","l","i","c",".","k","e","r","n","2",".">>

left_patterns ==
    << <<"L","E","F","T">>, <<"L","H","S">>, <<"L","_">>,
       <<"F","I","R","S","T">>, <<"1","S","T">>, <<"_","L">>, <<"L",".">> >>

right_patterns ==
    << <<"R","I","G","H","T">>, <<"R","H","S">>, <<"R","_">>,
       <<"S","E","C","O","N","D">>, <<"2","N","D">>, <<"_","R">>, <<"R",".">> >>

\* the second loop, from its k-th pattern on, and the default after it
RECURSIVE LeftLoop(_, _)
LeftLoop(class_name_upper, k) ==
    IF k > Len(left_patterns)
    THEN kern1
    ELSE IF \/ contains(left_patterns[k], class_name_upper)
            \/ startswith(class_name_upper, <<"L">>)
         THEN kern1
         ELSE LeftLoop(class_name_upper, k + 1)

\* the first loop, from its k-th pattern on
RECURSIVE RightLoop(_, _)
RightLoop(class_name_upper, k) ==
    IF k > Len(right_patterns)
    THEN LeftLoop(class_name_upper, 1)
    ELSE IF \/ contains(right_patterns[k], class_name_upper)
            \/ startswith(class_name_upper, <<"R">>)
         THEN kern2
         ELSE RightLoop(class_name_upper, k + 1)

CaseSensitiveGroupType(name) == RightLoop(name, 1)

determine_group_type(name) == RightLoop(upper(name), 1)

(***************************************************************************)
(* kern-convertor.py: the statement tree the parser hands over             *)
(***************************************************************************)
\* members of a glyph class definition; node is the member's Python type
GlyphNameItem(g) == [node |-> "GlyphName", fea |-> g]
GlyphClassItem(c) == [node |-> "GlyphClass", fea |-> c]
StrItem(g) == [node |-> "str", fea |-> g]
AsFeaItem(g) == [node |-> "asFea", fea |-> g]
UnknownItem == [node |-> "unknown", fea |-> "?"]

\* a top-level class definition; shape says what its glyphs attribute is
ClassDef(name, shape, items) ==
    [type |-> "GlyphClassDefinition", name |-> name, shape |-> shape,
     glyphs |-> items]

\* operands of a pairwise-positioning statement
NoGroup == [node |-> "None", is_class |-> FALSE, names |-> <<>>]
Glyph(g) == [node |-> "GlyphName", is_class |-> FALSE, names |-> <<g>>]
Inline(gs) == [node |-> "glyphs", is_class |-> FALSE, names |-> gs]
AsList(gs) == [node |-> "as_list", is_class |-> FALSE, names |-> gs]
Iterable(gs) == [node |-> "iter", is_class |-> FALSE, names |-> gs]
ClassRef(c) == [node |-> "GlyphClassName", is_class |-> TRUE, names |-> <<c>>]
Opaque == [node |-> "object", is_class |-> FALSE, names |-> <<>>]
Broken == [node |-> "broken", is_class |-> FALSE, names |-> <<>>]

\* a value record: present says the attribute exists and is truthy
NoValueRecord == [present |-> FALSE, hasXAdvance |-> FALSE, xAdvance |-> 0]
XAdvance(v) == [present |-> TRUE, hasXAdvance |-> TRUE, xAdvance |-> v]
NoXAdvance == [present |-> TRUE, hasXAdvance |-> FALSE, xAdvance |-> 0]

PairPosStatement(g1, g2, fg, sg, vr1, v1) ==
    [type |-> "PairPosStatement", glyphs1 |-> g1, glyphs2 |-> g2,
     firstGlyphs |-> fg, secondGlyphs |-> sg, valuerecord1 |-> vr1,
     value1 |-> v1]

\* pos g1 g2 v; as the current parser builds it
Pos(g1, g2, v) ==
    PairPosStatement(g1, g2, NoGroup, NoGroup, XAdvance(v), NoValueRecord)

MarkBasePosStatement(base, marks) ==
    [type |-> "MarkBasePosStatement", base |-> base, marks |-> marks]

MarkMarkPosStatement(base, marks) ==
    [type |-> "MarkMarkPosStatement", base |-> base, marks |-> marks]

OtherStatement == [type |-> "Comment"]

LookupBlock(name, statements) ==
    [type |-> "LookupBlock", name |-> name, statements |-> statements]

FeatureBlock(name, statements) ==
    [type |-> "FeatureBlock", name |-> name, statements |-> statements]

(***************************************************************************)
(* kern-convertor.py: extract_glyph_names_from_group                       *)
(***************************************************************************)
extract_glyph_names_from_group(group) ==
    IF group.node \in {"as_list", "glyphs", "GlyphName", "iter", "asFea"}
    THEN group.names
    ELSE <<>>

(***************************************************************************)
(* kern-convertor.py: extract_glyphs_from_glyphclass                       *)
(***************************************************************************)
\* the loop over items, from the k-th item on
RECURSIVE ItemsLoop(_, _, _, _)
ItemsLoop(items, k, glyph_classes_dict, member_glyphs) ==
    IF k > Len(items)
    THEN member_glyphs
    ELSE LET item == items[k]
             next ==
                 CASE item.node = "GlyphName" ->
                        Append(member_glyphs, item.fea)
                   [] item.node = "GlyphClass" ->
                        IF item.fea \in DOMAIN glyph_classes_dict
                        THEN member_glyphs \o glyph_classes_dict[item.fea]
                        ELSE Append(member_glyphs, item.fea)
                   [] item.node = "str" ->
                        Append(member_glyphs, item.fea)
                   [] item.node = "asFea" ->
                        Append(member_glyphs, item.fea)
                   [] OTHER -> member_glyphs
         IN  ItemsLoop(items, k + 1, glyph_classes_dict, next)

RECURSIVE Dedup(_)
Dedup(s) ==
    IF s = <<>>
    THEN <<>>
    ELSE LET front == Dedup(SubSeq(s, 1, Len(s) - 1))
             last == s[Len(s)]
         IN  IF \E k \in 1..Len(front) : front[k] = last
             THEN front
             ELSE Append(front, last)

\* a resolver that keeps each glyph once
DedupGlyphsFromGlyphclass(glyph_class, glyph_classes_dict) ==
    IF glyph_class.shape \in {"nested", "iter"}
    THEN Dedup(ItemsLoop(glyph_class.glyphs, 1, glyph_classes_dict, <<>>))
    ELSE <<>>

\* a resolver that appends the reference token instead of expanding it
TokenGlyphsFromGlyphclass(glyph_class, glyph_classes_dict) ==
    IF glyph_class.shape \in {"nested", "iter"}
    THEN ItemsLoop(glyph_class.glyphs, 1, EmptyDict, <<>>)
    ELSE <<>>

\* the loop over items of a resolver that drops an undefined reference
RECURSIVE ItemsLoopDropUndefined(_, _, _, _)
ItemsLoopDropUndefined(items, k, glyph_classes_dict, member_glyphs) ==
    IF k > Len(items)
    THEN member_glyphs
    ELSE LET item == items[k]
             next ==
                 CASE item.node \in {"GlyphName", "str", "asFea"} ->
                        Append(member_glyphs, item.fea)
                   [] item.node = "GlyphClass" ->
                        member_glyphs \o DictGet(glyph_classes_dict, item.fea, <<>>)
                   [] OTHER -> member_glyphs
         IN  ItemsLoopDropUndefined(items, k + 1, glyph_classes_dict, next)

DropUndefinedGlyphsFromGlyphclass(glyph_class, glyph_classes_dict) ==
    IF glyph_class.shape \in {"nested", "iter"}
    THEN ItemsLoopDropUndefined(glyph_class.glyphs, 1, glyph_classes_dict, <<>>)
    ELSE <<>>

extract_glyphs_from_glyphclass(glyph_class, glyph_classes_dict) ==
    IF glyph_class.shape \in {"nested", "iter"}
    THEN ItemsLoop(glyph_class.glyphs, 1, glyph_classes_dict, <<>>)
    ELSE <<>>

(***************************************************************************)
(* kern-convertor.py: convert_kerning_fea_to_plist, one statement          *)
(***************************************************************************)
\* a store that forgets the row of g1
StorePairResetRow(table, g1, g2, value) ==
    DictPut(table, g1, DictPut(EmptyDict, g2, value))

\* a store that keeps the first value of a pair
StorePairKeepFirst(table, g1, g2, value) ==
    IF g1 \in DOMAIN table /\ g2 \in DOMAIN table[g1]
    THEN table
    ELSE LET row == IF g1 \in DOMAIN table THEN table[g1] ELSE EmptyDict
         IN  DictPut(table, g1, DictPut(row, g2, value))

\* if g1 not in kerning_data: kerning_data[g1] = {}; kerning_data[g1][g2] = value
StorePair(table, g1, g2, value) ==
    LET t0 == IF g1 \notin DOMAIN table
              THEN DictPut(table, g1, EmptyDict)
              ELSE table
    IN  DictPut(t0, g1, DictPut(t0[g1], g2, value))

\* for g2 in resolved_second_glyphs, from the n-th on; st is [table, pairs]
RECURSIVE SecondLoop(_, _, _, _, _)
SecondLoop(second, n, g1, value, st) ==
    IF n > Len(second)
    THEN st
    ELSE SecondLoop(second, n + 1, g1, value,
            [table |-> StorePair(st.table, g1, second[n], value),
             pairs |-> Append(st.pairs, <<g1, second[n], value>>)])

\* for g1 in resolved_first_glyphs, from the m-th on
RECURSIVE FirstLoop(_, _, _, _, _)
FirstLoop(first, m, second, value, st) ==
    IF m > Len(first)
    THEN st
    ELSE FirstLoop(first, m + 1, second, value,
            SecondLoop(second, 1, first[m], value, st))

\* getattr(statement, a, None) or getattr(statement, b, None)
GroupOf(a, b) == IF a.node # "None" THEN a ELSE b

\* the statement's horizontal advance
ValueOf(statement) ==
    IF statement.valuerecord1.present /\ statement.valuerecord1.hasXAdvance
    THEN statement.valuerecord1.xAdvance
    ELSE IF statement.value1.present /\ statement.value1.hasXAdvance
         THEN statement.value1.xAdvance
         ELSE 0

\* one operand: [skip, glyphs]; skip is the `continue` of an empty class
UndefinedAsToken(group, classes) ==
    IF group.is_class
    THEN [skip |-> FALSE, glyphs |-> DictGet(classes, group.names[1], group.names)]
    ELSE [skip |-> FALSE, glyphs |-> extract_glyph_names_from_group(group)]

ResolveGroup(group, classes) ==
    IF group.is_class
    THEN LET resolved == DictGet(classes, group.names[1], <<>>)
         IN  [skip |-> resolved = <<>>, glyphs |-> resolved]
    ELSE [skip |-> FALSE, glyphs |-> extract_glyph_names_from_group(group)]

\* the body of `if isinstance(statement, PairPosStatement)`:
\* [table, pairs, warnings] after the statement
ProcessPairPos(statement, classes, table) ==
    LET first_group == GroupOf(statement.glyphs1, statement.firstGlyphs)
        second_group == GroupOf(statement.glyphs2, statement.secondGlyphs)
        skipped(w) == [table |-> table, pairs |-> <<>>, warnings |-> <<w>>]
    IN  IF first_group.node = "None" \/ second_group.node = "None"
        THEN skipped("warning: no glyph groups")
        ELSE IF first_group.node = "broken"
        THEN skipped("warning: statement error")
        ELSE LET first == ResolveGroup(first_group, classes)
             IN  IF first.skip
                 THEN skipped("warning: class not defined")
                 ELSE IF second_group.node = "broken"
                 THEN skipped("warning: statement error")
                 ELSE LET second == ResolveGroup(second_group, classes)
                      IN  IF second.skip
                          THEN skipped("warning: class not defined")
                          ELSE LET st == FirstLoop(first.glyphs, 1,
                                            second.glyphs, ValueOf(statement),
                                            [table |-> table, pairs |-> <<>>])
                               IN  [table |-> st.table, pairs |-> st.pairs,
                                    warnings |-> <<>>]

\* a walk that reads a mark attachment as a pair of its base and its marks
MarksAsPairs(statement, classes, table) ==
    IF statement.type = "PairPosStatement"
    THEN ProcessPairPos(statement, classes, table)
    ELSE IF statement.type \in {"MarkBasePosStatement", "MarkMarkPosStatement"}
    THEN ProcessPairPos(Pos(statement.base, statement.marks, 0), classes, table)
    ELSE [table |-> table, pairs |-> <<>>, warnings |-> <<>>]

\* the body of `for statement in statements_to_process`
ProcessStatement(statement, classes, table) ==
    IF statement.type = "PairPosStatement"
    THEN ProcessPairPos(statement, classes, table)
    ELSE [table |-> table, pairs |-> <<>>, warnings |-> <<>>]

\* a selection by `'kern' in name.lower()`
SelectContainsKern(lookup_block) ==
    IF lookup_block.type = "LookupBlock"
       /\ contains(<<"k","e","r","n">>, lower(lookup_block.name))
    THEN lookup_block.statements
    ELSE <<>>

\* statements_to_process of one top-level statement
SelectStatements(lookup_block) ==
    IF lookup_block.type = "LookupBlock"
       /\ startswith(lower(lookup_block.name), <<"k","e","r","n">>)
    THEN lookup_block.statements
    ELSE <<>>

(***************************************************************************)
(* The feature files the parser may return                                 *)
(***************************************************************************)
kern_base == <<"k","e","r","n","_","b","a","s","e">>

TopStatements ==
    << ClassDef("@K1", "nested",
                <<GlyphNameItem("A"), StrItem("B"), GlyphNameItem("A")>>),
       ClassDef("@K2", "nested", <<GlyphClassItem("@K1"), GlyphNameItem("C")>>),
       ClassDef("@K3", "iter",
                <<StrItem("D"), GlyphClassItem("@K2"), AsFeaItem("V")>>),
       ClassDef("@K2", "iter",
                <<UnknownItem, GlyphClassItem("@K3"), GlyphNameItem("B")>>),
       ClassDef("@K3", "scalar", <<>>),
       LookupBlock(kern_base,
           << Pos(Inline(<<"A", "B">>), Inline(<<"C", "D">>), -75) >>),
       LookupBlock(<<"K","E","R","N","1">>,
           << Pos(Glyph("A"), Glyph("C"), -50),
              MarkBasePosStatement(Glyph("A"), Glyph("V")),
              Pos(ClassRef("@K1"), ClassRef("@K3"), -20),
              Pos(Glyph("A"), AsList(<<"C", "V">>), 10) >>),
       LookupBlock(<<"k","e","r","n">>,
           << Pos(ClassRef("@K2"), Glyph("B"), 30),
              MarkMarkPosStatement(Inline(<<"B">>), Glyph("C")),
              Pos(Glyph("B"), ClassRef("@K3"), 5),
              OtherStatement >>),
       LookupBlock(<<"m","y","k","e","r","n">>,
           << Pos(Glyph("A"), Glyph("C"), 99) >>),
       FeatureBlock(<<"k","e","r","n">>,
           << Pos(Glyph("A"), Glyph("V"), -50),
              LookupBlock(<<"k","e","r","n">>,
                  << Pos(Glyph("V"), Glyph("A"), 1) >>) >>),
       LookupBlock(<<"K","e","r","n">>,
           << PairPosStatement(NoGroup, NoGroup, Glyph("D"),
                  Iterable(<<"A", "D">>), NoXAdvance, XAdvance(40)),
              PairPosStatement(Glyph("A"), NoGroup, NoGroup, NoGroup,
                  XAdvance(3), NoValueRecord),
              Pos(Broken, Glyph("A"), 3),
              Pos(Glyph("A"), Opaque, 3),
              PairPosStatement(Glyph("D"), Glyph("A"), NoGroup, NoGroup,
                  NoValueRecord, NoValueRecord) >>) >>

\* the file whose statements are those numbered ix[1], ix[2], ...
FileOf(ix) == [k \in 1..Len(ix) |-> TopStatements[ix[k]]]

FileIndexes == UNION {[1..n -> 1..Len(TopStatements)] : n \in 0..MaxTop}

NotWritten == [opened |-> FALSE, complete |-> FALSE, data |-> EmptyDict]

(***************************************************************************)
(* kern-convertor.py: convert_kerning_fea_to_plist                         *)
(***************************************************************************)
Init ==
    /\ prog \in {"kerning", "groups"}
    /\ pc = "check"
    /\ fea_exists \in BOOLEAN
    /\ feature_file = <<>>
    /\ parsed = FALSE
    /\ glyph_classes = EmptyDict
    /\ kerning_data = EmptyDict
    /\ i = 0
    /\ j = 0
    /\ statements_to_process = <<>>
    /\ output = NotWritten
    /\ log = <<>>
    /\ pairs_logged = <<>>
    /\ extracted_groups_data = EmptyDict
    /\ glyphClassDefs = <<>>
    /\ regex_matches = <<>>
    /\ class_name = <<>>
    /\ group_type = <<>>

\* a check that lets a missing file through to the parser
CheckInputLenient(exists) == TRUE

\* os.path.exists(fea_file_path)
CheckInput(exists) == exists

\* if not os.path.exists(fea_file_path): log the error and return
KerningCheckInput ==
    /\ prog = "kerning"
    /\ pc = "check"
    /\ IF CheckInput(fea_exists)
       THEN /\ pc' = "parse"
            /\ log' = log
       ELSE /\ pc' = "done"
            /\ log' = Append(log, "error: input file not found")
    /\ UNCHANGED <<prog, fea_exists, feature_file, parsed, glyph_classes,
                   kerning_data, i, j, statements_to_process, output,
                   pairs_logged, extracted_groups_data, class_name, group_type,
                   glyphClassDefs, regex_matches>>

\* a handler of the parse error that goes on with no statements
ParseFailureContinues == "classes"

\* where the `except Exception` of the parse goes: return
ParseFailureGoesTo == "done"

\* try: open, Parser(...).parse()  except Exception: log the error and return
KerningParse ==
    /\ prog = "kerning"
    /\ pc = "parse"
    /\ \/ /\ \E ix \in FileIndexes : feature_file' = FileOf(ix)
          /\ fea_exists
          /\ parsed' = TRUE
          /\ pc' = "classes"
          /\ i' = 1
          /\ log' = log
       \/ /\ feature_file' = feature_file
          /\ parsed' = FALSE
          /\ pc' = ParseFailureGoesTo
          /\ i' = i
          /\ log' = Append(log, "error: parsing")
    /\ UNCHANGED <<prog, fea_exists, glyph_classes, kerning_data, j,
                   statements_to_process, output, pairs_logged,
                   extracted_groups_data, class_name, group_type,
                   glyphClassDefs, regex_matches>>

\* for statement in feature_file.statements: store a class definition
StoreGlyphClass ==
    /\ prog = "kerning"
    /\ pc = "classes"
    /\ parsed
    /\ i <= Len(feature_file)
    /\ LET statement == feature_file[i]
       IN  IF statement.type = "GlyphClassDefinition"
           THEN glyph_classes' =
                    DictPut(glyph_classes, statement.name,
                        extract_glyphs_from_glyphclass(statement, glyph_classes))
           ELSE glyph_classes' = glyph_classes
    /\ i' = i + 1
    /\ UNCHANGED <<prog, pc, fea_exists, feature_file, parsed, kerning_data, j,
                   statements_to_process, output, log, pairs_logged,
                   extracted_groups_data, class_name, group_type,
                   glyphClassDefs, regex_matches>>

\* the class loop ends (or `if feature_file:` skips it); kerning_data = {}
EndClassPass ==
    /\ prog = "kerning"
    /\ pc = "classes"
    /\ ~parsed \/ i > Len(feature_file)
    /\ pc' = "walk"
    /\ i' = 1
    /\ kerning_data' = EmptyDict
    /\ UNCHANGED <<prog, fea_exists, feature_file, parsed, glyph_classes, j,
                   statements_to_process, output, log, pairs_logged,
                   extracted_groups_data, class_name, group_type,
                   glyphClassDefs, regex_matches>>

\* for lookup_block in feature_file.statements: choose statements_to_process
SelectLookup ==
    /\ prog = "kerning"
    /\ pc = "walk"
    /\ parsed
    /\ i <= Len(feature_file)
    /\ statements_to_process' = SelectStatements(feature_file[i])
    /\ j' = 1
    /\ pc' = "inner"
    /\ UNCHANGED <<prog, fea_exists, feature_file, parsed, glyph_classes,
                   kerning_data, i, output, log, pairs_logged,
                   extracted_groups_data, class_name, group_type,
                   glyphClassDefs, regex_matches>>

\* for statement in statements_to_process: one statement
WalkStatement ==
    /\ prog = "kerning"
    /\ pc = "inner"
    /\ j <= Len(statements_to_process)
    /\ LET r == ProcessStatement(statements_to_process[j], glyph_classes,
                                 kerning_data)
       IN  /\ kerning_data' = r.table
           /\ pairs_logged' = pairs_logged \o r.pairs
           /\ log' = log \o r.warnings
    /\ j' = j + 1
    /\ UNCHANGED <<prog, pc, fea_exists, feature_file, parsed, glyph_classes,
                   i, statements_to_process, output, extracted_groups_data,
                   class_name, group_type,
                   glyphClassDefs, regex_matches>>

\* the inner loop ends: the next top-level statement
EndLookup ==
    /\ prog = "kerning"
    /\ pc = "inner"
    /\ j > Len(statements_to_process)
    /\ pc' = "walk"
    /\ i' = i + 1
    /\ UNCHANGED <<prog, fea_exists, feature_file, parsed, glyph_classes,
                   kerning_data, j, statements_to_process, output, log,
                   pairs_logged, extracted_groups_data, class_name, group_type,
                   glyphClassDefs, regex_matches>>

\* the outer loop ends (or `if feature_file:` skips it)
EndWalk ==
    /\ prog = "kerning"
    /\ pc = "walk"
    /\ ~parsed \/ i > Len(feature_file)
    /\ pc' = "write"
    /\ UNCHANGED <<prog, fea_exists, feature_file, parsed, glyph_classes,
                   kerning_data, i, j, statements_to_process, output, log,
                   pairs_logged, extracted_groups_data, class_name, group_type,
                   glyphClassDefs, regex_matches>>

\* warn of an empty table; open the output, plistlib.dump; log a failure
KerningWrite ==
    /\ prog = "kerning"
    /\ pc = "write"
    /\ LET warned == IF kerning_data = EmptyDict
                     THEN Append(log, "warning: no kerning data")
                     ELSE log
       IN  \/ /\ output' = [opened |-> TRUE, complete |-> TRUE,
                            data |-> kerning_data]
              /\ log' = warned
           \/ /\ output' = [opened |-> TRUE, complete |-> FALSE,
                            data |-> EmptyDict]
              /\ log' = Append(warned, "error: writing")
           \/ /\ output' = output
              /\ log' = Append(warned, "error: writing")
    /\ pc' = "done"
    /\ UNCHANGED <<prog, fea_exists, feature_file, parsed, glyph_classes,
                   kerning_data, i, j, statements_to_process, pairs_logged,
                   extracted_groups_data, class_name, group_type,
                   glyphClassDefs, regex_matches>>

(***************************************************************************)
(* kern-groups.py: extract_and_write_kerning_groups                        *)
(***************************************************************************)
\* s.lstrip("\\")
RECURSIVE lstrip_backslash(_)
lstrip_backslash(s) ==
    IF s # <<>> /\ s[1] = "\\"
    THEN lstrip_backslash(Tail(s))
    ELSE s

Whitespace == {" ", "\n", "\t"}

\* s.split(), from the k-th character on; cur is the word being read
RECURSIVE SplitFrom(_, _, _, _)
SplitFrom(s, k, cur, acc) ==
    LET closed == IF cur = <<>> THEN acc ELSE Append(acc, cur)
    IN  IF k > Len(s)
        THEN closed
        ELSE IF s[k] \in Whitespace
             THEN SplitFrom(s, k + 1, <<>>, closed)
             ELSE SplitFrom(s, k + 1, Append(cur, s[k]), acc)

split(s) == SplitFrom(s, 1, <<>>, <<>>)

\* what parser.glyphClassDefs may hold after parser.parse()
GlyphClassDefs ==
    << <<>>,
       << [class_name |-> <<"@","R","_","a">>, shape |-> "glyphs",
           glyphs |-> << <<"A">>, <<"\\","B">> >>] >>,
       << [class_name |-> <<"@","R","_","a">>, shape |-> "glyphs",
           glyphs |-> << <<"A">>, <<"\\","B">> >>],
          [class_name |-> <<"l","e","f","t">>, shape |-> "iterable",
           glyphs |-> << <<"\\","V">> >>] >>,
       << [class_name |-> <<"k","_","R">>, shape |-> "glyphs",
           glyphs |-> << <<"C">> >>],
          [class_name |-> <<"@","x">>, shape |-> "broken", glyphs |-> <<>>] >> >>

\* what re.findall(class_pattern, content, re.DOTALL) may return
RegexMatches ==
    << <<>>,
       << [class_name |-> <<"R","x">>,
           glyphs_str |-> <<"A","b"," ","\n","C">>] >>,
       << [class_name |-> <<"e","m","p","t","y">>, glyphs_str |-> <<" ">>] >>,
       << [class_name |-> <<"k">>, glyphs_str |-> <<"V">>],
          [class_name |-> <<"k">>, glyphs_str |-> <<"A"," ","A">>] >> >>

\* the loop over parser.glyphClassDefs.items(), from the k-th on:
\* [raised, data]
RECURSIVE DefsLoop(_, _, _)
DefsLoop(defs, k, data) ==
    IF k > Len(defs)
    THEN [raised |-> FALSE, data |-> data]
    ELSE LET def == defs[k]
             clean_name == IF startswith(def.class_name, <<"@">>)
                           THEN Tail(def.class_name)
                           ELSE def.class_name
             glyph_list == IF def.shape = "glyphs"
                           THEN [n \in 1..Len(def.glyphs) |->
                                    lstrip_backslash(def.glyphs[n])]
                           ELSE def.glyphs
             full_ufo_group_name == determine_group_type(clean_name) \o clean_name
         IN  IF def.shape = "broken"
             THEN [raised |-> TRUE, data |-> data]
             ELSE DefsLoop(defs, k + 1,
                      DictPut(data, full_ufo_group_name, glyph_list))

\* the loop of parse_groups_with_regex over the matches, from the k-th on
RECURSIVE MatchesLoop(_, _, _)
MatchesLoop(matches, k, data) ==
    IF k > Len(matches)
    THEN data
    ELSE LET glyph_list == split(matches[k].glyphs_str)
             name == matches[k].class_name
         IN  MatchesLoop(matches, k + 1,
                 IF glyph_list # <<>>
                 THEN DictPut(data, determine_group_type(name) \o name, glyph_list)
                 ELSE data)

parse_groups_with_regex(matches) == MatchesLoop(matches, 1, EmptyDict)

\* os.path.exists(fea_file_path)
GroupsInputExists(exists) == exists

\* if not os.path.exists(fea_file_path): print the error and return
GroupsCheckInput ==
    /\ prog = "groups"
    /\ pc = "check"
    /\ IF GroupsInputExists(fea_exists)
       THEN /\ pc' = "parse"
            /\ log' = log
       ELSE /\ pc' = "done"
            /\ log' = Append(log, "error: input file not found")
    /\ UNCHANGED <<prog, fea_exists, feature_file, parsed, glyph_classes,
                   kerning_data, i, j, statements_to_process, output,
                   pairs_logged, extracted_groups_data, class_name, group_type,
                   glyphClassDefs, regex_matches>>

\* the inner try: read, Parser(...).parse(), walk parser.glyphClassDefs
GroupsParse ==
    /\ prog = "groups"
    /\ pc = "parse"
    /\ \/ /\ fea_exists
          /\ \E n \in 1..Len(GlyphClassDefs) :
                LET defs == GlyphClassDefs[n]
                    r == DefsLoop(defs, 1, EmptyDict)
                IN  /\ parsed' = TRUE
                    /\ glyphClassDefs' = defs
                    /\ extracted_groups_data' = r.data
                    /\ IF defs = <<>> \/ r.raised
                       THEN /\ pc' = "regex"
                            /\ log' = Append(log, "fontTools parsing failed")
                       ELSE /\ pc' = "write"
                            /\ log' = log
       \/ /\ parsed' = FALSE
          /\ glyphClassDefs' = glyphClassDefs
          /\ extracted_groups_data' = extracted_groups_data
          /\ pc' = "regex"
          /\ log' = Append(log, "fontTools parsing failed")
    /\ UNCHANGED <<prog, fea_exists, feature_file, glyph_classes, kerning_data,
                   i, j, statements_to_process, output, pairs_logged,
                   class_name, group_type,
                   regex_matches>>

\* a fallback that keeps what the structured walk had collected
FallbackKeepsPartial(partial, matches) ==
    LET found == parse_groups_with_regex(matches)
    IN  [x \in (DOMAIN partial) \cup (DOMAIN found) |->
            IF x \in DOMAIN found THEN found[x] ELSE partial[x]]

\* extracted_groups_data = parse_groups_with_regex(fea_file_path)
FallbackResult(partial, matches) == parse_groups_with_regex(matches)

\* except Exception: print the failure, scan the text with the regex
GroupsRegexFallback ==
    /\ prog = "groups"
    /\ pc = "regex"
    /\ \/ /\ fea_exists
          /\ \E n \in 1..Len(RegexMatches) :
                /\ regex_matches' = RegexMatches[n]
                /\ extracted_groups_data' =
                        FallbackResult(extracted_groups_data, RegexMatches[n])
          /\ pc' = "write"
          /\ log' = Append(log, "regex fallback")
       \/ /\ extracted_groups_data' = extracted_groups_data
          /\ regex_matches' = regex_matches
          /\ pc' = "done"
          /\ log' = Append(log, "error: processing")
    /\ UNCHANGED <<prog, fea_exists, feature_file, parsed, glyph_classes,
                   kerning_data, i, j, statements_to_process, output,
                   pairs_logged, class_name, group_type,
                   glyphClassDefs>>

\* return if nothing was extracted; else open the output and plistlib.dump
GroupsWrite ==
    /\ prog = "groups"
    /\ pc = "write"
    /\ IF extracted_groups_data = EmptyDict
       THEN /\ output' = output
            /\ log' = Append(log, "no kerning groups")
       ELSE \/ /\ output' = [opened |-> TRUE, complete |-> TRUE,
                             data |-> extracted_groups_data]
               /\ log' = log
            \/ /\ output' = [opened |-> TRUE, complete |-> FALSE,
                             data |-> EmptyDict]
               /\ log' = Append(log, "error: processing")
            \/ /\ output' = output
               /\ log' = Append(log, "error: processing")
    /\ pc' = "done"
    /\ UNCHANGED <<prog, fea_exists, feature_file, parsed, glyph_classes,
                   kerning_data, i, j, statements_to_process, pairs_logged,
                   extracted_groups_data, class_name, group_type,
                   glyphClassDefs, regex_matches>>

(***************************************************************************)
(* The two scripts                                                         *)
(***************************************************************************)
Next ==
    \/ KerningCheckInput
    \/ KerningParse
    \/ StoreGlyphClass
    \/ EndClassPass
    \/ SelectLookup
    \/ WalkStatement
    \/ EndLookup
    \/ EndWalk
    \/ KerningWrite
    \/ GroupsCheckInput
    \/ GroupsParse
    \/ GroupsRegexFallback
    \/ GroupsWrite

Spec == Init /\ [][Next]_vars

(***************************************************************************)
(* determine_group_type on its own, over bounded class names               *)
(***************************************************************************)
Chunks ==
    << <<"R","I","G","H","T">>, <<"r","i","g","h","t">>, <<"R","i">>,
       <<"g","h","t">>, <<"L">>, <<"l","e","f","t">>, <<"R">>, <<"r">>,
       <<"_">>, <<"x">>, <<"K">>, <<"2","n","d">>, <<".">>, <<"h","s">>,
       <<"l">>, <<"1","S","T">> >>

RECURSIVE Concat(_)
Concat(cs) == IF cs = <<>> THEN <<>> ELSE cs[1] \o Concat(Tail(cs))

ChunkIndexes == UNION {[1..n -> 1..Len(Chunks)] : n \in 0..MaxChunks}

ClassNames == {Concat([k \in 1..Len(ix) |-> Chunks[ix[k]]]) : ix \in ChunkIndexes}

InitClassifier ==
    /\ prog = "classify"
    /\ pc = "check"
    /\ class_name \in ClassNames
    /\ group_type = <<>>
    /\ fea_exists = TRUE
    /\ feature_file = <<>>
    /\ parsed = FALSE
    /\ glyph_classes = EmptyDict
    /\ kerning_data = EmptyDict
    /\ i = 0
    /\ j = 0
    /\ statements_to_process = <<>>
    /\ output = NotWritten
    /\ log = <<>>
    /\ pairs_logged = <<>>
    /\ extracted_groups_data = EmptyDict
    /\ glyphClassDefs = <<>>
    /\ regex_matches = <<>>

\* ufo_group_name_prefix = determine_group_type(clean_name)
Classify ==
    /\ prog = "classify"
    /\ pc = "check"
    /\ group_type' = determine_group_type(class_name)
    /\ pc' = "done"
    /\ UNCHANGED <<prog, fea_exists, feature_file, parsed, glyph_classes,
                   kerning_data, i, j, statements_to_process, output, log,
                   pairs_logged, extracted_groups_data, class_name,
                   glyphClassDefs, regex_matches>>

NextClassifier == Classify

SpecClassifier == InitClassifier /\ [][NextClassifier]_vars

(***************************************************************************)
(* kern-convertor.py: the walk of the statement tree as one function       *)
(***************************************************************************)
\* for statement in statements_to_process, from the k-th on
RECURSIVE StatementsLoop(_, _, _, _)
StatementsLoop(statements, k, classes, table) ==
    IF k > Len(statements)
    THEN table
    ELSE StatementsLoop(statements, k + 1, classes,
            ProcessStatement(statements[k], classes, table).table)

\* for lookup_block in feature_file.statements, from the k-th on
RECURSIVE LookupsLoop(_, _, _, _)
LookupsLoop(statements, k, classes, table) ==
    IF k > Len(statements)
    THEN table
    ELSE LookupsLoop(statements, k + 1, classes,
            StatementsLoop(SelectStatements(statements[k]), 1, classes, table))

\* kerning_data after the walk of a whole file
ExtractKerning(statements, classes) ==
    LookupsLoop(statements, 1, classes, EmptyDict)

(***************************************************************************)
(* Vocabulary of the properties                                            *)
(***************************************************************************)
Range(s) == {s[k] : k \in 1..Len(s)}

\* the table holds a value for the pair
Has(table, g1, g2) == g1 \in DOMAIN table /\ g2 \in DOMAIN table[g1]

\* every name that is a key of the table, outer or inner
Keys(table) == (DOMAIN table) \cup UNION {DOMAIN table[g] : g \in DOMAIN table}

InLog(m) == \E k \in 1..Len(log) : log[k] = m

Walked == parsed /\ pc \in {"write", "done"}

\* the statement the inner loop is about to process
AtStatement == prog = "kerning" /\ pc = "inner" /\ j <= Len(statements_to_process)

IsPairPos(statement) == statement.type = "PairPosStatement"

IsMark(statement) ==
    statement.type \in {"MarkBasePosStatement", "MarkMarkPosStatement"}

FirstGroup(statement) == GroupOf(statement.glyphs1, statement.firstGlyphs)

SecondGroup(statement) == GroupOf(statement.glyphs2, statement.secondGlyphs)

\* both operands of the statement are there and resolve to glyph lists
Resolves(statement, classes) ==
    /\ FirstGroup(statement).node \notin {"None", "broken"}
    /\ SecondGroup(statement).node \notin {"None", "broken"}
    /\ ~ResolveGroup(FirstGroup(statement), classes).skip
    /\ ~ResolveGroup(SecondGroup(statement), classes).skip

\* the operand names a class that the mapping does not hold
UndefinedClass(group, classes) ==
    group.is_class /\ group.names[1] \notin DOMAIN classes

ExampleFile == <<TopStatements[6]>>

ExampleTable ==
    [g1 \in {"A", "B"} |-> [g2 \in {"C", "D"} |-> -75]]

(***************************************************************************)
(* C1: a pairwise-positioning statement of a selected lookup whose         *)
(* operands resolve to L and R, with advance v, sets table[l][r] = v for   *)
(* every l in L and r in R and adds or changes no other entry; the single  *)
(* rule pos [A B] [C D] -75; in lookup kern_base yields exactly the pairs  *)
(* (A,C), (A,D), (B,C), (B,D), all -75.                                    *)
(***************************************************************************)
C1_StatementStep ==
    (AtStatement
        /\ IsPairPos(statements_to_process[j])
        /\ Resolves(statements_to_process[j], glyph_classes))
    => LET statement == statements_to_process[j]
           L == Range(ResolveGroup(FirstGroup(statement), glyph_classes).glyphs)
           R == Range(ResolveGroup(SecondGroup(statement), glyph_classes).glyphs)
           v == ValueOf(statement)
           names == Keys(kerning_data) \cup Keys(kerning_data') \cup L \cup R
       IN  /\ \A g1 \in names, g2 \in names :
                IF g1 \in L /\ g2 \in R
                THEN Has(kerning_data', g1, g2) /\ kerning_data'[g1][g2] = v
                ELSE /\ Has(kerning_data', g1, g2) <=> Has(kerning_data, g1, g2)
                     /\ Has(kerning_data, g1, g2)
                            => kerning_data'[g1][g2] = kerning_data[g1][g2]
           /\ DOMAIN kerning_data' =
                (DOMAIN kerning_data) \cup (IF R = {} THEN {} ELSE L)

C1_Example ==
    (prog = "kerning" /\ Walked /\ feature_file = ExampleFile)
        => kerning_data = ExampleTable

\* C1: the example file yields exactly the four pairs at -75, and every
\* resolved pairwise statement writes its Cartesian product and nothing else
C1_CartesianProduct == []C1_Example /\ [][C1_StatementStep]_vars

C1_Witness ==
    /\ pc = "done"
    /\ feature_file = ExampleFile
    /\ output.complete
    /\ output.data = ExampleTable

(***************************************************************************)
(* C2: after any sequence of processed pairwise-positioning statements the *)
(* value stored for a pair is the value of the last processed statement    *)
(* whose Cartesian product contains the pair, and a pair no processed      *)
(* statement contains is not in the table.                                 *)
(***************************************************************************)
\* the statements of the selected lookups of a file, in processing order
RECURSIVE SelectedOf(_)
SelectedOf(statements) ==
    IF statements = <<>>
    THEN <<>>
    ELSE SelectStatements(statements[1]) \o SelectedOf(Tail(statements))

\* the statements the walk has processed so far
Processed ==
    IF prog # "kerning" \/ ~parsed
    THEN <<>>
    ELSE IF pc = "inner"
    THEN SelectedOf(SubSeq(feature_file, 1, i - 1))
            \o SubSeq(statements_to_process, 1, j - 1)
    ELSE IF pc = "walk"
    THEN SelectedOf(SubSeq(feature_file, 1, i - 1))
    ELSE IF pc \in {"write", "done"}
    THEN SelectedOf(feature_file)
    ELSE <<>>

\* the Cartesian product of the statement contains the pair
Covers(statement, g1, g2) ==
    /\ IsPairPos(statement)
    /\ Resolves(statement, glyph_classes)
    /\ g1 \in Range(ResolveGroup(FirstGroup(statement), glyph_classes).glyphs)
    /\ g2 \in Range(ResolveGroup(SecondGroup(statement), glyph_classes).glyphs)

\* the glyph lists and the value of a processed statement
LeftOf(statement) == Range(ResolveGroup(FirstGroup(statement), glyph_classes).glyphs)

RightOf(statement) == Range(ResolveGroup(SecondGroup(statement), glyph_classes).glyphs)

\* C2: the table holds, for each pair, the value of the last processed
\* statement covering it, and holds no pair that no processed statement covers
C2_LastWriterWins ==
    LET done == Processed
        effective == {k \in 1..Len(done) :
                        IsPairPos(done[k]) /\ Resolves(done[k], glyph_classes)}
    IN  /\ \A k \in effective :
            \A g1 \in LeftOf(done[k]), g2 \in RightOf(done[k]) :
                /\ Has(kerning_data, g1, g2)
                /\ (\A n \in effective : n > k => ~Covers(done[n], g1, g2))
                        => kerning_data[g1][g2] = ValueOf(done[k])
        /\ \A g1 \in DOMAIN kerning_data :
            \A g2 \in DOMAIN kerning_data[g1] :
                \E k \in effective : Covers(done[k], g1, g2)

\* (A,C) was written -75 by kern_base and then -50 by KERN1
C2_Witness ==
    /\ pc = "done"
    /\ feature_file = <<TopStatements[6], TopStatements[7]>>
    /\ Has(kerning_data, "A", "C")
    /\ kerning_data["A"]["C"] = 10
    /\ kerning_data["A"]["D"] = -75

(***************************************************************************)
(* C3: when an operand of a pairwise-positioning statement is a named      *)
(* class reference that the resolved-class mapping does not hold, the      *)
(* statement adds no pair (none for the operand that did resolve either),  *)
(* the table stays as it was, and the walk goes on to the next statement   *)
(* of the lookup.                                                          *)
(***************************************************************************)
C3_StatementStep ==
    (AtStatement
        /\ IsPairPos(statements_to_process[j])
        /\ \/ UndefinedClass(FirstGroup(statements_to_process[j]), glyph_classes)
           \/ UndefinedClass(SecondGroup(statements_to_process[j]), glyph_classes))
    => /\ kerning_data' = kerning_data
       /\ pairs_logged' = pairs_logged
       /\ pc' = "inner"
       /\ j' = j + 1
       /\ statements_to_process' = statements_to_process
       /\ i' = i

\* C3: a statement with an undefined class operand changes nothing and the
\* walk moves to the next statement
C3_UndefinedClassSkipsStatement == [][C3_StatementStep]_vars

\* in KERN1, pos @K1 @K3 -20 was skipped with @K1 defined and @K3 not, and
\* the statement after it, pos A [C V] 10, was processed
C3_Witness ==
    /\ pc = "inner"
    /\ feature_file[i] = TopStatements[7]
    /\ j = 5
    /\ "@K1" \in DOMAIN glyph_classes
    /\ "@K3" \notin DOMAIN glyph_classes
    /\ Has(kerning_data, "A", "V")
    /\ kerning_data["A"]["V"] = 10
    /\ \A g1 \in DOMAIN kerning_data :
          \A g2 \in DOMAIN kerning_data[g1] : kerning_data[g1][g2] # -20

(***************************************************************************)
(* C4: when the input feature file does not exist neither converter opens  *)
(* or writes its output: each reports the missing file and returns before  *)
(* any parsing or writing.                                                 *)
(***************************************************************************)
C4_MissingInputNoWrite ==
    (prog \in {"kerning", "groups"} /\ ~fea_exists)
    => /\ output = NotWritten
       /\ ~parsed
       /\ pc \in {"check", "done"}
       /\ pc = "done" => log = <<"error: input file not found">>
       /\ kerning_data = EmptyDict
       /\ extracted_groups_data = EmptyDict

C4_Witness ==
    /\ prog = "kerning"
    /\ ~fea_exists
    /\ pc = "done"
    /\ InLog("error: input file not found")

(***************************************************************************)
(* C5, as stated: a parse failure does not halt the kerning converter,     *)
(* which still serializes an empty table; it ends without a completed      *)
(* write only on a missing input file or a write failure.                  *)
(***************************************************************************)
C5_Original ==
    (prog = "kerning" /\ pc = "done")
    => /\ InLog("error: parsing")
            => (InLog("error: writing")
                    \/ (output.complete /\ output.data = EmptyDict))
       /\ ~output.complete => (~fea_exists \/ InLog("error: writing"))

(***************************************************************************)
(* C5, amended: a parse failure halts the kerning converter: it logs the   *)
(* error and returns with no class stored, no statement walked and the     *)
(* output untouched.  The converter ends without a completed write exactly *)
(* on a missing input file, a parse failure or a write failure; after a    *)
(* successful parse and write the output holds the table, empty or not.    *)
(***************************************************************************)
C5_ParseFailureHalts ==
    (prog = "kerning" /\ pc = "done")
    => /\ InLog("error: parsing")
            => /\ output = NotWritten
               /\ ~parsed
               /\ glyph_classes = EmptyDict
               /\ kerning_data = EmptyDict
               /\ pairs_logged = <<>>
               /\ log = <<"error: parsing">>
       /\ ~output.complete
            <=> (~fea_exists \/ InLog("error: parsing") \/ InLog("error: writing"))
       /\ output.complete => (parsed /\ output.data = kerning_data)

C5_Witness ==
    /\ prog = "kerning"
    /\ pc = "done"
    /\ fea_exists
    /\ InLog("error: parsing")
    /\ output = NotWritten

(***************************************************************************)
(* C6: inside a selected kerning lookup a mark-attachment statement leaves *)
(* the kerning table unchanged, and the table of a file equals the table   *)
(* of the same file with every mark-attachment statement removed from its  *)
(* lookups.                                                                *)
(***************************************************************************)
NotMark(statement) == ~IsMark(statement)

WithoutMarks(statements) ==
    [k \in 1..Len(statements) |->
        IF statements[k].type = "LookupBlock"
        THEN LookupBlock(statements[k].name,
                         SelectSeq(statements[k].statements, NotMark))
        ELSE statements[k]]

C6_StatementStep ==
    (AtStatement /\ IsMark(statements_to_process[j]))
    => /\ kerning_data' = kerning_data
       /\ pairs_logged' = pairs_logged
       /\ pc' = "inner"
       /\ j' = j + 1

C6_Final ==
    (prog = "kerning" /\ Walked)
    => kerning_data = ExtractKerning(WithoutMarks(feature_file), glyph_classes)

\* C6: a mark-attachment statement changes nothing, and the final table is
\* that of the file without its mark-attachment statements
C6_MarkStatementsSkipped == []C6_Final /\ [][C6_StatementStep]_vars

\* KERN1 holds a mark-to-base statement between two pairwise statements
C6_Witness ==
    /\ pc = "done"
    /\ feature_file = <<TopStatements[7]>>
    /\ output.complete
    /\ output.data = [g1 \in {"A"} |-> [g2 \in {"C", "V"} |-> 10]]

(***************************************************************************)
(* C7: a class definition whose references all name classes defined        *)
(* before it resolves to the flat list in which each referenced class's    *)
(* resolved list stands at the place of the reference, between the members *)
(* before and after it, through every level of nesting; the list holds     *)
(* glyph names only, no class-reference token.                             *)
(***************************************************************************)
IsClassDef(statement) == statement.type = "GlyphClassDefinition"

\* the last definition of class c before the k-th statement, or 0
LastDefBefore(statements, c, k) ==
    LET ms == {m \in 1..(k - 1) :
                    IsClassDef(statements[m]) /\ statements[m].name = c}
    IN  IF ms = {} THEN 0 ELSE CHOOSE m \in ms : \A n \in ms : n <= m

HasMembers(statement) == statement.shape \in {"nested", "iter"}

References(statement) ==
    IF HasMembers(statement)
    THEN {statement.glyphs[n].fea : n \in
            {m \in 1..Len(statement.glyphs) : statement.glyphs[m].node = "GlyphClass"}}
    ELSE {}

\* every reference of the k-th statement, and of the classes it refers to,
\* names a class defined before the place of the reference
RECURSIVE WellFounded(_, _)
WellFounded(statements, k) ==
    \A c \in References(statements[k]) :
        LET d == LastDefBefore(statements, c, k)
        IN  d # 0 /\ WellFounded(statements, d)

\* the class of the k-th statement, expanded from the text of the file
RECURSIVE DeepExpand(_, _)
RECURSIVE DeepItems(_, _, _)
DeepItems(statements, k, n) ==
    LET items == statements[k].glyphs
    IN  IF n > Len(items)
        THEN <<>>
        ELSE (CASE items[n].node \in {"GlyphName", "str", "asFea"} ->
                        <<items[n].fea>>
                [] items[n].node = "GlyphClass" ->
                        DeepExpand(statements,
                            LastDefBefore(statements, items[n].fea, k))
                [] OTHER -> <<>>)
             \o DeepItems(statements, k, n + 1)

DeepExpand(statements, k) ==
    IF HasMembers(statements[k]) THEN DeepItems(statements, k, 1) ELSE <<>>

\* how many top-level statements the class pass has visited
ClassesDone ==
    IF prog # "kerning" \/ ~parsed
    THEN 0
    ELSE IF pc = "classes" THEN i - 1 ELSE Len(feature_file)

ClassTokens ==
    UNION {{feature_file[k].name} \cup References(feature_file[k]) :
            k \in {m \in 1..Len(feature_file) : IsClassDef(feature_file[m])}}

\* C7: a stored class whose references are all backward equals its expansion
\* from the text, and holds no class token
C7_NestedExpansion ==
    \A k \in 1..ClassesDone :
        (/\ IsClassDef(feature_file[k])
         /\ References(feature_file[k]) # {}
         /\ LastDefBefore(feature_file, feature_file[k].name, ClassesDone + 1) = k
         /\ WellFounded(feature_file, k))
        => /\ feature_file[k].name \in DOMAIN glyph_classes
           /\ glyph_classes[feature_file[k].name] = DeepExpand(feature_file, k)
           /\ Range(glyph_classes[feature_file[k].name]) \cap ClassTokens = {}

\* two levels: @K3 = [D @K2 V], @K2 = [@K1 C], @K1 = [A B A]
C7_Witness ==
    /\ feature_file = <<TopStatements[1], TopStatements[2], TopStatements[3]>>
    /\ pc = "walk"
    /\ glyph_classes["@K2"] = <<"A", "B", "A", "C">>
    /\ glyph_classes["@K3"] = <<"D", "A", "B", "A", "C", "V">>

(***************************************************************************)
(* C8: a class definition whose members are all single glyphs resolves to  *)
(* exactly the declared member names, in declaration order, of the same    *)
(* length, duplicates kept, whatever the resolved-class mapping holds.     *)
(***************************************************************************)
C8_StatementStep ==
    (/\ prog = "kerning"
     /\ pc = "classes"
     /\ i <= Len(feature_file)
     /\ IsClassDef(feature_file[i])
     /\ \A n \in 1..Len(feature_file[i].glyphs) :
            feature_file[i].glyphs[n].node \in {"GlyphName", "str"})
    => LET name == feature_file[i].name
           items == feature_file[i].glyphs
       IN  /\ name \in DOMAIN glyph_classes'
           /\ Len(glyph_classes'[name]) = Len(items)
           /\ \A n \in 1..Len(items) : glyph_classes'[name][n] = items[n].fea
           /\ \A c \in (DOMAIN glyph_classes) \ {name} :
                c \in DOMAIN glyph_classes' /\ glyph_classes'[c] = glyph_classes[c]

\* C8: a class of single glyphs is stored as its declared names, in order
C8_DirectMembersInOrder == [][C8_StatementStep]_vars

\* @K1 = [A B A] was resolved while the mapping held @K2 and @K3
C8_Witness ==
    /\ pc = "classes"
    /\ i = 4
    /\ feature_file = <<TopStatements[2], TopStatements[3], TopStatements[1]>>
    /\ glyph_classes["@K1"] = <<"A", "B", "A">>
    /\ {"@K2", "@K3"} \subseteq DOMAIN glyph_classes

(***************************************************************************)
(* C9, as stated: determine_group_type returns public.kern2. for every     *)
(* class name containing RIGHT in any letter case, returns public.kern1.   *)
(* for every class name that matches none of the right-side and none of    *)
(* the left-side patterns, and returns nothing but these two prefixes.     *)
(***************************************************************************)
MatchesAny(patterns, name) ==
    \E k \in 1..Len(patterns) : contains(patterns[k], upper(name))

\* C9 as stated, with the patterns read as the two pattern lists
C9_Original ==
    (prog = "classify" /\ pc = "done")
    => /\ contains(<<"R","I","G","H","T">>, upper(class_name)) => group_type = kern2
       /\ (~MatchesAny(right_patterns, class_name)
                /\ ~MatchesAny(left_patterns, class_name))
            => group_type = kern1
       /\ group_type \in {kern1, kern2}

(***************************************************************************)
(* C9, amended: determine_group_type returns public.kern2. for every class *)
(* name containing RIGHT in any letter case, returns public.kern1. for     *)
(* every class name that matches none of the right-side patterns and does  *)
(* not begin with the letter R (in either case), and returns nothing but   *)
(* these two prefixes.                                                     *)
(***************************************************************************)
C9_GroupType ==
    (prog = "classify" /\ pc = "done")
    => /\ contains(<<"R","I","G","H","T">>, upper(class_name)) => group_type = kern2
       /\ (~MatchesAny(right_patterns, class_name)
                /\ ~(class_name # <<>> /\ class_name[1] \in {"R", "r"}))
            => group_type = kern1
       /\ group_type \in {kern1, kern2}

\* xright: RIGHT in lower case, not at the start
C9_Witness ==
    /\ prog = "classify"
    /\ pc = "done"
    /\ class_name = <<"x","r","i","g","h","t">>
    /\ group_type = kern2

(***************************************************************************)
(* C10: only the pairwise-positioning statements directly in the body of a *)
(* top-level lookup block whose name begins with kern, in any letter case, *)
(* contribute to the kerning table; those of lookups of another name and   *)
(* of top-level statements that are no lookup block contribute no pair.    *)
(***************************************************************************)
IsKernLookup(statement) ==
    /\ statement.type = "LookupBlock"
    /\ Len(statement.name) >= 4
    /\ statement.name[1] \in {"k", "K"}
    /\ statement.name[2] \in {"e", "E"}
    /\ statement.name[3] \in {"r", "R"}
    /\ statement.name[4] \in {"n", "N"}

KernLookupsOnly(statements) == SelectSeq(statements, IsKernLookup)

\* C10: statements_to_process is the body of a top-level kern lookup or
\* empty, and the final table is that of the kern lookups alone
C10_OnlyKernLookups ==
    /\ (prog = "kerning" /\ pc = "inner")
        => statements_to_process =
                IF IsKernLookup(feature_file[i])
                THEN feature_file[i].statements
                ELSE <<>>
    /\ (prog = "kerning" /\ Walked)
        => kerning_data =
                ExtractKerning(KernLookupsOnly(feature_file), glyph_classes)

\* feature kern { pos A V -50; lookup kern { pos V A 1; } }, lookup mykern
\* and lookup kern_base: only kern_base contributes
C10_Witness ==
    /\ pc = "done"
    /\ feature_file = <<TopStatements[10], TopStatements[9], TopStatements[6]>>
    /\ output.complete
    /\ output.data = ExampleTable

(***************************************************************************)
(* C11: when a class definition, resolved in declaration order, references *)
(* a class name that the resolved-class mapping does not hold yet, the     *)
(* resolver does not fail: the raw reference token stands at the place of  *)
(* the reference, the other members keep their order, and the list is      *)
(* stored under the class's name; classes and kerning rules that use the   *)
(* class afterwards receive the token as if it were a glyph name.          *)
(***************************************************************************)
\* the members numbered a..b of a definition, as a definition of their own
SubDef(statement, a, b) ==
    ClassDef(statement.name, statement.shape, SubSeq(statement.glyphs, a, b))

C11_ClassStep ==
    (/\ prog = "kerning"
     /\ pc = "classes"
     /\ i <= Len(feature_file)
     /\ IsClassDef(feature_file[i])
     /\ HasMembers(feature_file[i]))
    => LET statement == feature_file[i]
           items == statement.glyphs
           refs == {n \in 1..Len(items) : items[n].node = "GlyphClass"}
       IN  /\ pc' = "classes"
           /\ i' = i + 1
           /\ statement.name \in DOMAIN glyph_classes'
           /\ \A n \in refs :
                IF items[n].fea \notin DOMAIN glyph_classes
                THEN glyph_classes'[statement.name] =
                        extract_glyphs_from_glyphclass(
                            SubDef(statement, 1, n - 1), glyph_classes)
                        \o <<items[n].fea>>
                        \o extract_glyphs_from_glyphclass(
                            SubDef(statement, n + 1, Len(items)), glyph_classes)
                ELSE Range(glyph_classes[items[n].fea])
                        \subseteq Range(glyph_classes'[statement.name])

C11_KerningStep ==
    (AtStatement
        /\ IsPairPos(statements_to_process[j])
        /\ Resolves(statements_to_process[j], glyph_classes))
    => LET statement == statements_to_process[j]
           left == DictGet(glyph_classes, FirstGroup(statement).names[1], <<>>)
           right == DictGet(glyph_classes, SecondGroup(statement).names[1], <<>>)
       IN  /\ FirstGroup(statement).is_class
                => \A t \in Range(left) \cap ClassTokens :
                     \A g2 \in RightOf(statement) :
                        /\ Has(kerning_data', t, g2)
                        /\ kerning_data'[t][g2] = ValueOf(statement)
           /\ SecondGroup(statement).is_class
                => \A t \in Range(right) \cap ClassTokens :
                     \A g1 \in LeftOf(statement) :
                        /\ Has(kerning_data', g1, t)
                        /\ kerning_data'[g1][t] = ValueOf(statement)

\* C11: an undefined reference is stored as its token, in place, and the
\* token reaches the classes and the kerning pairs that use the class
C11_PlaceholderToken == [][C11_ClassStep /\ C11_KerningStep]_vars

\* @K2 = [@K1 C] with @K1 undefined, @K3 = [D @K2 V], then lookup kern with
\* pos @K2 B 30 and pos B @K3 5
C11_Witness ==
    /\ pc = "done"
    /\ feature_file = <<TopStatements[2], TopStatements[3], TopStatements[8]>>
    /\ glyph_classes["@K2"] = <<"@K1", "C">>
    /\ glyph_classes["@K3"] = <<"D", "@K1", "C", "V">>
    /\ Has(kerning_data, "@K1", "B")
    /\ kerning_data["@K1"]["B"] = 30
    /\ Has(kerning_data, "B", "@K1")
    /\ kerning_data["B"]["@K1"] = 5

(***************************************************************************)
(* C12: kern-groups.py, the structured parser and the regex fallback       *)
(***************************************************************************)
\* the script is past its try/except around the structured parser
PastStructured ==
    prog = "groups" /\ fea_exists /\ pc \in {"regex", "write", "done"}

\* what the walk of parser.glyphClassDefs does with the definitions parsed
StructuredWalk == DefsLoop(glyphClassDefs, 1, EmptyDict)

\* the parser raised, or it produced no class definition, or the walk raised
StructuredFailed ==
    \/ ~parsed
    \/ glyphClassDefs = <<>>
    \/ StructuredWalk.raised

\* parse_groups_with_regex was called and returned
RegexRan == InLog("regex fallback")

\* parse_groups_with_regex was called: it is about to run, it ran, or it raised
RegexUsed ==
    \/ pc = "regex"
    \/ RegexRan
    \/ pc = "done" /\ InLog("fontTools parsing failed") /\ ~RegexRan

\* the groups of the strategy the script chose, once that strategy has ended
StrategyEnded == PastStructured /\ (RegexRan \/ ~StructuredFailed)

\* C12: the regex scan is used exactly when the structured parser raised or
\* produced no class definition, its result then replaces whatever the walk
\* had collected and is what gets written; a structured parse with at least
\* one definition and no exception is written as it is, without the regex
\* scan; and a strategy that yields no groups writes no file
C12_RegexFallback ==
    PastStructured =>
        /\ RegexUsed <=> StructuredFailed
        /\ RegexRan =>
              extracted_groups_data = parse_groups_with_regex(regex_matches)
        /\ ~StructuredFailed =>
              /\ regex_matches = <<>>
              /\ extracted_groups_data = StructuredWalk.data
              /\ extracted_groups_data # EmptyDict
        /\ output.opened => StrategyEnded
        /\ output.complete =>
              /\ output.data = extracted_groups_data
              /\ RegexRan => output.data = parse_groups_with_regex(regex_matches)
        /\ (StrategyEnded /\ extracted_groups_data = EmptyDict) =>
              (pc = "done" => output = NotWritten /\ InLog("no kerning groups"))

\* the walk stored public.kern2.k_R and then raised on @x; the regex scan
\* found @Rx alone, and the file written holds that group only
C12_Witness ==
    /\ prog = "groups"
    /\ pc = "done"
    /\ parsed
    /\ glyphClassDefs = GlyphClassDefs[4]
    /\ StructuredWalk.raised
    /\ StructuredWalk.data # EmptyDict
    /\ regex_matches = RegexMatches[2]
    /\ output.complete
    /\ output.data # EmptyDict
    /\ output.data = parse_groups_with_regex(RegexMatches[2])
    /\ (DOMAIN StructuredWalk.data) \cap (DOMAIN output.data) = {}

====
